---- MODULE Spec2Model ----
(***************************************************************************)
(* The three SAT engines of the repository (src/dp.py, src/dpll.py,        *)
(* src/resolution.py) run one after the other on the same CNF formula.     *)
(* A literal is a nonzero integer, a clause of DP and DPLL is a sequence   *)
(* of literals (a Python list), a clause of the resolution engine is a set *)
(* of literals (a Python frozenset).                                       *)
(***************************************************************************)
EXTENDS Integers, Sequences, FiniteSets, TLC

\* Bounds of the input formulas.
NumVars == 2
MaxClauseLen == 2
MaxClauses == 3
\* Bounds of the clause pairs handed to resolve_pair on its own.
PairVars == 3
PairMaxLen == 3

VARIABLES
    engine,       \* which engine is running: "dp", "dpll", "res", "done", or "pair"
    formula,      \* the caller's formula: a sequence of clauses (lists of literals)
    dpClauses,    \* DPSolver._clauses
    dpStats,      \* DPSolver._stats
    dpResult,     \* what DPSolver.solve returned: "none" (not yet), "True", "False"
    dpllFormula,  \* DPLLSolver._formula
    dpllStats,    \* DPLLSolver._stats
    dpllStack,    \* the activation records of DPLLSolver.solve, outermost first
    dpllHeap,     \* the model dicts allocated so far, by object identity
    dpllRet,      \* the value a returning solve call hands to its caller
    dpllResult,   \* outcome of the top-level solve: "none", "model", "None", "IndexError"
    dpllModel,    \* the dict the top-level solve returned
    resInitial,   \* ResolutionEngine.clauses_initial
    resSeen,      \* ResolutionEngine.clauses_seen
    resDerived,   \* ResolutionEngine.derived_indices
    resStats,     \* ResolutionEngine.stats
    resLoop,      \* the locals of ResolutionEngine.solve: pool, total_count, current_len, position
    resResult,    \* what ResolutionEngine.solve returned: "none", "True", "False"
    pairIn,       \* arguments of a stand-alone _resolve_pair call
    pairOut       \* its return value

vars == <<engine, formula, dpClauses, dpStats, dpResult,
          dpllFormula, dpllStats, dpllStack, dpllHeap, dpllRet, dpllResult, dpllModel,
          resInitial, resSeen, resDerived, resStats, resLoop, resResult,
          pairIn, pairOut>>

dpVars == <<dpClauses, dpStats, dpResult>>
dpllVars == <<dpllFormula, dpllStats, dpllStack, dpllHeap, dpllRet, dpllResult, dpllModel>>
resVars == <<resInitial, resSeen, resDerived, resStats, resLoop, resResult>>
pairVars == <<pairIn, pairOut>>

----------------------------------------------------------------------------
\* Literals, clauses, formulas

Lits == {l \in (0 - NumVars)..NumVars : l # 0}
ClauseLists == UNION {[1..n -> Lits] : n \in 0..MaxClauseLen}
Formulas == UNION {[1..n -> ClauseLists] : n \in 0..MaxClauses}

Abs(l) == IF l < 0 THEN 0 - l ELSE l
Range(s) == {s[k] : k \in 1..Len(s)}
In(l, clause) == \E k \in 1..Len(clause) : clause[k] = l

\* Every sequence that enumerates the finite set S once: the orders in which
\* iterating a Python set may yield its elements.
RECURSIVE IterOrders(_)
IterOrders(S) ==
    IF S = {} THEN {<<>>}
    ELSE UNION {{<<e>> \o t : t \in IterOrders(S \ {e})} : e \in S}

\* frozenset(clause) for every clause of a formula, as load_dimacs builds them
FrozenClauses(cnf) == [k \in 1..Len(cnf) |-> Range(cnf[k])]

\* Semantics: total assignments over the variables of the model
Assignments == [1..NumVars -> BOOLEAN]
LitTrue(a, l) == IF l > 0 THEN a[l] ELSE ~a[0 - l]
Satisfies(a, cnf) == \A k \in 1..Len(cnf) : \E l \in Range(cnf[k]) : LitTrue(a, l)
Satisfiable(cnf) == \E a \in Assignments : Satisfies(a, cnf)
VarsOf(cnf) == {Abs(l) : l \in UNION {Range(cnf[k]) : k \in 1..Len(cnf)}}
HasEmptyClause(cnf) == \E k \in 1..Len(cnf) : Len(cnf[k]) = 0

----------------------------------------------------------------------------
\* DP elimination (src/dp.py)

RECURSIVE choose_var_from(_, _)
choose_var_from(clauses, k) ==
    IF k > Len(clauses) THEN 0
    ELSE IF Len(clauses[k]) > 0 THEN Abs(clauses[k][1])
    ELSE choose_var_from(clauses, k + 1)

\* 0 stands for None
choose_var(clauses) == choose_var_from(clauses, 1)

\* the literals of the resolvent of c1 and c2 on var, before they are listed
Resolvent(c1, c2, var) == (Range(c1) \cup Range(c2)) \ {var, 0 - var}

\* the pairs (c1, c2), c1 in pos, c2 in neg, in the order of the nested loops
RECURSIVE PosNegPairs(_, _, _, _)
PosNegPairs(pos, neg, a, b) ==
    IF a > Len(pos) THEN <<>>
    ELSE IF b > Len(neg) THEN PosNegPairs(pos, neg, a + 1, 1)
    ELSE <<(<<pos[a], neg[b]>>)>> \o PosNegPairs(pos, neg, a, b + 1)

\* the nested loops of _eliminate from pair k on, new_clauses being acc
RECURSIVE EliminateLoop(_, _, _, _)
EliminateLoop(pairs, k, var, acc) ==
    IF k > Len(pairs) THEN {[ret |-> "ok", new |-> acc]}
    ELSE LET R == Resolvent(pairs[k][1], pairs[k][2], var)
         IN IF R = {} THEN {[ret |-> "None", new |-> acc]}
            ELSE UNION {EliminateLoop(pairs, k + 1, var, Append(acc, o)) : o \in IterOrders(R)}

\* _eliminate(var) on the solver state (clauses, stats): the possible outcomes
eliminate(clauses, stats, var) ==
    LET pos  == SelectSeq(clauses, LAMBDA c : In(var, c))
        neg  == SelectSeq(clauses, LAMBDA c : ~In(var, c) /\ In(0 - var, c))
        rest == SelectSeq(clauses, LAMBDA c : ~In(var, c) /\ ~In(0 - var, c))
    IN {IF o.ret = "None"
        THEN [ret |-> "None", clauses |-> clauses,
              stats |-> [stats EXCEPT !.resolvents = @ + Len(o.new)]]
        ELSE [ret |-> "ok", clauses |-> rest \o o.new,
              stats |-> [vars_eliminated |-> stats.vars_eliminated + 1,
                         resolvents |-> stats.resolvents + Len(o.new)]]
        : o \in EliminateLoop(PosNegPairs(pos, neg, 1, 1), 1, var, <<>>)}

\* one iteration of the loop of DPSolver.solve: the possible outcomes
solve_iteration(clauses, stats) ==
    IF Len(clauses) = 0
    THEN {[result |-> "True", clauses |-> clauses, stats |-> stats]}
    ELSE IF HasEmptyClause(clauses)
    THEN {[result |-> "False", clauses |-> clauses, stats |-> stats]}
    ELSE IF choose_var(clauses) = 0
    THEN {[result |-> "True", clauses |-> clauses, stats |-> stats]}
    ELSE {[result |-> IF o.ret = "None" THEN "False" ELSE "none",
           clauses |-> o.clauses, stats |-> o.stats]
          : o \in eliminate(clauses, stats, choose_var(clauses))}

DPApply ==
    /\ \E o \in solve_iteration(dpClauses, dpStats) :
          /\ dpClauses' = o.clauses
          /\ dpStats' = o.stats
          /\ dpResult' = o.result
          /\ engine' = IF o.result = "none" THEN "dp" ELSE "dpll"
    /\ UNCHANGED <<formula, dpllVars, resVars, pairVars>>

DPReturnSat ==
    /\ engine = "dp"
    /\ Len(dpClauses) = 0 \/ (~HasEmptyClause(dpClauses) /\ choose_var(dpClauses) = 0)
    /\ DPApply

DPReturnUnsat ==
    /\ engine = "dp"
    /\ Len(dpClauses) > 0
    /\ HasEmptyClause(dpClauses)
    /\ DPApply

DPEliminate ==
    /\ engine = "dp"
    /\ Len(dpClauses) > 0
    /\ ~HasEmptyClause(dpClauses)
    /\ choose_var(dpClauses) # 0
    /\ DPApply

\* the verdicts DPSolver(cnf).solve() can return
RECURSIVE DPRun(_, _)
DPRun(clauses, stats) ==
    UNION {IF o.result # "none" THEN {o.result} ELSE DPRun(o.clauses, o.stats)
           : o \in solve_iteration(clauses, stats)}

DPVerdicts(cnf) == DPRun(cnf, [vars_eliminated |-> 0, resolvents |-> 0])

----------------------------------------------------------------------------
\* DPLL search (src/dpll.py)

\* 0 stands for None
RECURSIVE find_unit_from(_, _)
find_unit_from(clauses, k) ==
    IF k > Len(clauses) THEN 0
    ELSE IF Len(clauses[k]) = 1 THEN clauses[k][1]
    ELSE find_unit_from(clauses, k + 1)

find_unit(clauses) == find_unit_from(clauses, 1)

\* the keys of counter: every literal that occurs in clauses
CounterKeys(clauses) == UNION {Range(clauses[k]) : k \in 1..Len(clauses)}

\* the first key of counter, in insertion order, whose negation is no key
RECURSIVE find_pure_from(_, _, _)
find_pure_from(clauses, k, j) ==
    IF k > Len(clauses) THEN 0
    ELSE IF j > Len(clauses[k]) THEN find_pure_from(clauses, k + 1, 1)
    ELSE IF (0 - clauses[k][j]) \notin CounterKeys(clauses) THEN clauses[k][j]
    ELSE find_pure_from(clauses, k, j + 1)

find_pure(clauses) == find_pure_from(clauses, 1, 1)

\* _simplify: none is TRUE when it returns None
RECURSIVE simplify_from(_, _, _, _)
simplify_from(clauses, lit, k, new_formula) ==
    IF k > Len(clauses) THEN [none |-> FALSE, clauses |-> new_formula]
    ELSE IF In(lit, clauses[k]) THEN simplify_from(clauses, lit, k + 1, new_formula)
    ELSE IF In(0 - lit, clauses[k])
    THEN LET reduced == SelectSeq(clauses[k], LAMBDA x : x # 0 - lit)
         IN IF Len(reduced) = 0 THEN [none |-> TRUE, clauses |-> <<>>]
            ELSE simplify_from(clauses, lit, k + 1, Append(new_formula, reduced))
    ELSE simplify_from(clauses, lit, k + 1, Append(new_formula, clauses[k]))

simplify(clauses, lit) == simplify_from(clauses, lit, 1, <<>>)

\* model[var] = value on a dict
Put(model, var, value) ==
    [x \in (DOMAIN model) \cup {var} |-> IF x = var THEN value ELSE model[x]]

\* the pure-literal loop of _propagate
RECURSIVE pure_loop(_, _, _)
pure_loop(clauses, model, stats) ==
    LET pure == find_pure(clauses)
    IN IF pure = 0
       THEN [none |-> FALSE, clauses |-> clauses, model |-> model, stats |-> stats]
       ELSE pure_loop(SelectSeq(clauses, LAMBDA c : ~In(pure, c)),
                      Put(model, Abs(pure), pure > 0),
                      [stats EXCEPT !.pure = @ + 1])

\* the unit loop of _propagate, followed by the pure-literal loop
RECURSIVE propagate(_, _, _)
propagate(clauses, model, stats) ==
    LET unit == find_unit(clauses)
    IN IF unit = 0 THEN pure_loop(clauses, model, stats)
       ELSE LET s  == simplify(clauses, unit)
                m  == Put(model, Abs(unit), unit > 0)
                st == [stats EXCEPT !.unit = @ + 1]
            IN IF s.none
               THEN [none |-> TRUE, clauses |-> <<>>, model |-> m, stats |-> st]
               ELSE propagate(s.clauses, m, st)

\* the truth values a decision tries, in order
Truths == <<TRUE, FALSE>>

\* a next_model that is the caller's dict itself, not a copy of it
NextModelAliased(heap, id, var, truth) ==
    [heap |-> [heap EXCEPT ![id] = Put(heap[id], var, truth)], id |-> id]

\* next_model = model.copy(); next_model[var] = truth, for the dict object id
NextModel(heap, id, var, truth) ==
    [heap |-> Append(heap, Put(heap[id], var, truth)), id |-> Len(heap) + 1]

\* a decision that simplifies under the pivot whatever the truth value
DecideIgnoringTruth(clauses, pivot, truth) == simplify(clauses, pivot)

\* a decision that recurses on the clauses as they are
DecideNoSimplify(clauses, pivot, truth) == [none |-> FALSE, clauses |-> clauses]

\* reduced = self._simplify(clauses, pivot if truth else -pivot)
Decide(clauses, pivot, truth) == simplify(clauses, IF truth THEN pivot ELSE 0 - pivot)

NoRet == [kind |-> "none", id |-> 0]

\* the state of the DPLL solver as one record
DPLLState ==
    [formula |-> dpllFormula, stats |-> dpllStats, stack |-> dpllStack, heap |-> dpllHeap,
     ret |-> dpllRet, result |-> dpllResult, model |-> dpllModel]

Top(st) == st.stack[Len(st.stack)]
Pop(stack) == SubSeq(stack, 1, Len(stack) - 1)

\* a return statement of solve: the call on top of the stack hands ret to its
\* caller; the return of the outermost call is the result of the run
Return(st, ret) ==
    IF Len(st.stack) = 1
    THEN [st EXCEPT !.stack = <<>>, !.ret = NoRet, !.result = ret.kind,
                    !.model = IF ret.kind = "model" THEN st.heap[ret.id] ELSE <<>>]
    ELSE [st EXCEPT !.stack = Pop(st.stack), !.ret = ret]

\* solve() called with no arguments
solve_call(st) ==
    [st EXCEPT !.stack = <<[clauses |-> st.formula, model |-> Len(st.heap) + 1,
                            phase |-> "enter", pivot |-> 0, truth |-> 1]>>,
               !.heap = Append(st.heap, <<>>)]

\* the call on top of the stack runs from _propagate to the decision
solve_propagate(st) ==
    LET f  == Top(st)
        p  == propagate(f.clauses, st.heap[f.model], st.stats)
        s1 == [st EXCEPT !.heap[f.model] = p.model, !.stats = p.stats]
    IN IF p.none THEN Return(s1, [kind |-> "None", id |-> 0])
       ELSE IF Len(p.clauses) = 0 THEN Return(s1, [kind |-> "model", id |-> f.model])
       ELSE IF Len(p.clauses[1]) = 0
       THEN [s1 EXCEPT !.stack = <<>>, !.ret = NoRet, !.result = "IndexError"]
       ELSE [s1 EXCEPT !.stack[Len(st.stack)] =
                           [f EXCEPT !.clauses = p.clauses, !.pivot = p.clauses[1][1],
                                     !.phase = "loop", !.truth = 1],
                       !.stats.decisions = @ + 1]

\* one round of the loop over the truth values, up to the recursive call
solve_branch(st) ==
    LET f       == Top(st)
        truth   == Truths[f.truth]
        nm      == NextModel(st.heap, f.model, Abs(f.pivot), truth)
        reduced == Decide(f.clauses, f.pivot, truth)
    IN IF reduced.none
       THEN [st EXCEPT !.heap = nm.heap, !.stats.backtracks = @ + 1,
                       !.stack[Len(st.stack)].truth = f.truth + 1]
       ELSE [st EXCEPT !.heap = nm.heap,
                       !.stack = Append([st.stack EXCEPT ![Len(st.stack)].phase = "wait"],
                                        [clauses |-> reduced.clauses, model |-> nm.id,
                                         phase |-> "enter", pivot |-> 0, truth |-> 1])]

\* the recursive call has returned: hand a model on, or count a backtrack
solve_after_call(st) ==
    IF st.ret.kind = "model" THEN Return(st, st.ret)
    ELSE [st EXCEPT !.ret = NoRet, !.stats.backtracks = @ + 1,
                    !.stack[Len(st.stack)].truth = @ + 1,
                    !.stack[Len(st.stack)].phase = "loop"]

\* both truth values failed
solve_exhausted(st) == Return(st, [kind |-> "None", id |-> 0])

CanCall(st) == st.result = "none" /\ Len(st.stack) = 0
CanPropagate(st) == Len(st.stack) > 0 /\ Top(st).phase = "enter"
CanBranch(st) == Len(st.stack) > 0 /\ Top(st).phase = "loop" /\ Top(st).truth <= Len(Truths)
CanAfterCall(st) == Len(st.stack) > 0 /\ Top(st).phase = "wait" /\ st.ret.kind # "none"
CanExhaust(st) == Len(st.stack) > 0 /\ Top(st).phase = "loop" /\ Top(st).truth > Len(Truths)

DPLLSet(st) ==
    /\ dpllFormula' = st.formula
    /\ dpllStats' = st.stats
    /\ dpllStack' = st.stack
    /\ dpllHeap' = st.heap
    /\ dpllRet' = st.ret
    /\ dpllResult' = st.result
    /\ dpllModel' = st.model
    /\ engine' = IF st.result = "none" THEN "dpll" ELSE "res"
    /\ UNCHANGED <<formula, dpVars, resVars, pairVars>>

DPLLCall == engine = "dpll" /\ CanCall(DPLLState) /\ DPLLSet(solve_call(DPLLState))
DPLLPropagate == engine = "dpll" /\ CanPropagate(DPLLState) /\ DPLLSet(solve_propagate(DPLLState))
DPLLBranch == engine = "dpll" /\ CanBranch(DPLLState) /\ DPLLSet(solve_branch(DPLLState))
DPLLAfterCall == engine = "dpll" /\ CanAfterCall(DPLLState) /\ DPLLSet(solve_after_call(DPLLState))
DPLLExhausted == engine = "dpll" /\ CanExhaust(DPLLState) /\ DPLLSet(solve_exhausted(DPLLState))

\* the outcome of DPLLSolver(cnf).solve()
RECURSIVE DPLLRun(_)
DPLLRun(st) ==
    IF st.result # "none" THEN st.result
    ELSE IF CanCall(st) THEN DPLLRun(solve_call(st))
    ELSE IF CanPropagate(st) THEN DPLLRun(solve_propagate(st))
    ELSE IF CanBranch(st) THEN DPLLRun(solve_branch(st))
    ELSE IF CanAfterCall(st) THEN DPLLRun(solve_after_call(st))
    ELSE DPLLRun(solve_exhausted(st))

DPLLNew(cnf) ==
    [formula |-> cnf, stats |-> [decisions |-> 0, backtracks |-> 0, unit |-> 0, pure |-> 0],
     stack |-> <<>>, heap |-> <<>>, ret |-> NoRet, result |-> "none", model |-> <<>>]

DPLLVerdict(cnf) == DPLLRun(DPLLNew(cnf))

----------------------------------------------------------------------------
\* Resolution closure (src/resolution.py)

\* _resolve_pair(left, right), order being the order in which left is iterated
RECURSIVE resolve_pair_from(_, _, _, _)
resolve_pair_from(order, right, k, resolvents) ==
    IF k > Len(order) THEN resolvents
    ELSE IF (0 - order[k]) \in right
    THEN resolve_pair_from(order, right, k + 1,
             Append(resolvents, (Range(order) \ {order[k]}) \cup (right \ {0 - order[k]})))
    ELSE resolve_pair_from(order, right, k + 1, resolvents)

\* a _resolve_pair that strips both polarities from the union of the clauses
resolve_pair_union(order, right) ==
    LET Q == SelectSeq(order, LAMBDA l : (0 - l) \in right)
    IN [k \in 1..Len(Q) |-> (Range(order) \cup right) \ {Q[k], 0 - Q[k]}]

resolve_pair(order, right) == resolve_pair_from(order, right, 1, <<>>)

\* the pairs (i, j), i < j, of a pool of n clauses in the order of the two
\* for loops (the indices count from 1)
RECURSIVE PoolPairs(_, _, _)
PoolPairs(n, i, j) ==
    IF i > n THEN <<>>
    ELSE IF j > n THEN PoolPairs(n, i + 1, i + 2)
    ELSE <<(<<i, j>>)>> \o PoolPairs(n, i, j + 1)

\* the body of the innermost loop for the resolvents rs[k], rs[k+1], ...
RECURSIVE add_resolvents(_, _, _)
add_resolvents(rs, k, st) ==
    IF k > Len(rs) THEN st
    ELSE LET clause == rs[k]
             s1 == [st EXCEPT !.stats.pairs = @ + 1]
         IN IF clause \notin s1.seen
            THEN LET s2 == [s1 EXCEPT !.loop.total_count = @ + 1,
                                      !.loop.pool = Append(@, clause),
                                      !.seen = @ \cup {clause},
                                      !.derived = Append(@, s1.loop.total_count + 1)]
                 IN IF clause = {} THEN [s2 EXCEPT !.result = "True"]
                    ELSE add_resolvents(rs, k + 1, s2)
            ELSE add_resolvents(rs, k + 1, s1)

\* the state of the resolution engine as one record
ResState ==
    [initial |-> resInitial, seen |-> resSeen, derived |-> resDerived, stats |-> resStats,
     loop |-> resLoop, result |-> resResult]

IdleLoop == [phase |-> "idle", pool |-> <<>>, total_count |-> 0, current_len |-> 0, pos |-> 0]

\* ResolutionEngine(clauses_input)
ResNew(clauses_input) ==
    [initial |-> clauses_input, seen |-> Range(clauses_input), derived |-> <<>>,
     stats |-> [pairs |-> 0], loop |-> IdleLoop, result |-> "none"]

\* solve() up to the outer loop
res_call(st) ==
    [st EXCEPT !.loop = [phase |-> "begin", pool |-> st.initial,
                         total_count |-> Len(st.initial), current_len |-> 0, pos |-> 0]]

\* an outer pass starts: current_len = len(pool)
res_pass_begin(st) ==
    [st EXCEPT !.loop.current_len = Len(st.loop.pool), !.loop.pos = 1,
               !.loop.phase = "pairs"]

\* one pair (i, j) of the pass: the possible outcomes
res_pair(st) ==
    LET ij    == PoolPairs(st.loop.current_len, 1, 2)[st.loop.pos]
        left  == st.loop.pool[ij[1]]
        right == st.loop.pool[ij[2]]
    IN {add_resolvents(resolve_pair(order, right), 1, [st EXCEPT !.loop.pos = @ + 1])
        : order \in IterOrders(left)}

\* the test that ends a pass
res_pass_end(st) ==
    IF /\ Len(st.loop.pool) = Len(st.initial) + Len(st.derived)
       /\ Len(st.initial) + Len(st.derived) = st.loop.total_count
    THEN [st EXCEPT !.result = "False"]
    ELSE [st EXCEPT !.loop.phase = "begin"]

CanResCall(st) == st.result = "none" /\ st.loop.phase = "idle"
CanPassBegin(st) == st.result = "none" /\ st.loop.phase = "begin"
CanPair(st) ==
    /\ st.result = "none"
    /\ st.loop.phase = "pairs"
    /\ st.loop.pos <= Len(PoolPairs(st.loop.current_len, 1, 2))
CanPassEnd(st) ==
    /\ st.result = "none"
    /\ st.loop.phase = "pairs"
    /\ st.loop.pos > Len(PoolPairs(st.loop.current_len, 1, 2))

ResSet(st) ==
    /\ resInitial' = st.initial
    /\ resSeen' = st.seen
    /\ resDerived' = st.derived
    /\ resStats' = st.stats
    /\ resLoop' = st.loop
    /\ resResult' = st.result
    /\ engine' = IF st.result = "none" THEN "res" ELSE "done"
    /\ UNCHANGED <<formula, dpVars, dpllVars, pairVars>>

ResCall == engine = "res" /\ CanResCall(ResState) /\ ResSet(res_call(ResState))
ResPassBegin == engine = "res" /\ CanPassBegin(ResState) /\ ResSet(res_pass_begin(ResState))
ResPair == engine = "res" /\ CanPair(ResState) /\ \E st \in res_pair(ResState) : ResSet(st)
ResPassEnd == engine = "res" /\ CanPassEnd(ResState) /\ ResSet(res_pass_end(ResState))

\* the verdicts ResolutionEngine(clauses).solve() can return
RECURSIVE ResRun(_)
ResRun(st) ==
    IF st.result # "none" THEN {st.result}
    ELSE IF CanResCall(st) THEN ResRun(res_call(st))
    ELSE IF CanPassBegin(st) THEN ResRun(res_pass_begin(st))
    ELSE IF CanPair(st) THEN UNION {ResRun(n) : n \in res_pair(st)}
    ELSE ResRun(res_pass_end(st))

ResVerdicts(cnf) == ResRun(ResNew(FrozenClauses(cnf)))

----------------------------------------------------------------------------
\* _resolve_pair on its own

PairLits == {l \in (0 - PairVars)..PairVars : l # 0}
PairLefts == UNION {{o \in [1..n -> PairLits] : \A a, b \in 1..n : a # b => o[a] # o[b]}
                    : n \in 0..PairMaxLen}
PairRights == {R \in SUBSET PairLits : Cardinality(R) <= PairMaxLen}

NoPairIn == [order |-> <<>>, right |-> {}]
NoPairOut == [called |-> FALSE, resolvents |-> <<>>]

ResolvePair ==
    /\ engine = "pair"
    /\ ~pairOut.called
    /\ pairOut' = [called |-> TRUE, resolvents |-> resolve_pair(pairIn.order, pairIn.right)]
    /\ UNCHANGED <<engine, formula, dpVars, dpllVars, resVars, pairIn>>

----------------------------------------------------------------------------
\* Specifications

\* the three solvers constructed on cnf, none of them started
Constructed(cnf) ==
    /\ formula = cnf
    /\ dpClauses = cnf
    /\ dpStats = [vars_eliminated |-> 0, resolvents |-> 0]
    /\ dpResult = "none"
    /\ dpllFormula = DPLLNew(cnf).formula
    /\ dpllStats = DPLLNew(cnf).stats
    /\ dpllStack = DPLLNew(cnf).stack
    /\ dpllHeap = DPLLNew(cnf).heap
    /\ dpllRet = DPLLNew(cnf).ret
    /\ dpllResult = DPLLNew(cnf).result
    /\ dpllModel = DPLLNew(cnf).model
    /\ resInitial = ResNew(FrozenClauses(cnf)).initial
    /\ resSeen = ResNew(FrozenClauses(cnf)).seen
    /\ resDerived = ResNew(FrozenClauses(cnf)).derived
    /\ resStats = ResNew(FrozenClauses(cnf)).stats
    /\ resLoop = ResNew(FrozenClauses(cnf)).loop
    /\ resResult = ResNew(FrozenClauses(cnf)).result

\* DP, then DPLL, then resolution on every formula within the bounds
Init ==
    /\ engine = "dp"
    /\ \E cnf \in Formulas : Constructed(cnf)
    /\ pairIn = NoPairIn
    /\ pairOut = NoPairOut

Next ==
    \/ DPReturnSat \/ DPReturnUnsat \/ DPEliminate
    \/ DPLLCall \/ DPLLPropagate \/ DPLLBranch \/ DPLLAfterCall \/ DPLLExhausted
    \/ ResCall \/ ResPassBegin \/ ResPair \/ ResPassEnd

Spec == Init /\ [][Next]_vars

\* DPLL alone on every formula within the bounds
InitDPLL ==
    /\ engine = "dpll"
    /\ \E cnf \in Formulas : Constructed(cnf)
    /\ pairIn = NoPairIn
    /\ pairOut = NoPairOut

NextDPLL == DPLLCall \/ DPLLPropagate \/ DPLLBranch \/ DPLLAfterCall \/ DPLLExhausted

SpecDPLL == InitDPLL /\ [][NextDPLL]_vars

\* _resolve_pair on every pair of clauses within the bounds
InitPair ==
    /\ engine = "pair"
    /\ Constructed(<<>>)
    /\ pairIn \in [order : PairLefts, right : PairRights]
    /\ pairOut = NoPairOut

NextPair == ResolvePair

SpecPair == InitPair /\ [][NextPair]_vars

----------------------------------------------------------------------------
\* Properties

\* the clause sequences that reorder cnf
Reorderings(cnf) ==
    {[k \in 1..Len(cnf) |-> cnf[f[k]]] : f \in Permutations(1..Len(cnf))}

\* C1: once the three engines have returned, DP returned True exactly when
\* DPLL returned a model, and exactly when resolution returned False.
C1_EnginesAgree ==
    engine = "done" =>
        /\ (dpResult = "True") <=> (dpllResult = "model")
        /\ (dpResult = "True") <=> (resResult = "False")

\* C2: on a satisfiable formula DPLL returns a model, and it returns None only
\* on an unsatisfiable one.
C2_Complete ==
    dpllResult # "none" =>
        /\ Satisfiable(formula) => dpllResult = "model"
        /\ dpllResult = "None" => ~Satisfiable(formula)

C2_Witness ==
    /\ dpllResult = "model"
    /\ Satisfiable(formula)
    /\ dpllStats.decisions > 0
    /\ dpllStats.unit > 0

\* C3: a model returned by DPLL assigns, in every clause of the input formula,
\* some literal's variable with that literal's polarity.
C3_ModelValid ==
    dpllResult = "model" =>
        \A k \in 1..Len(formula) :
            \E l \in Range(formula[k]) :
                Abs(l) \in DOMAIN dpllModel /\ dpllModel[Abs(l)] = (l > 0)

\* C4: on a formula with an empty clause DP returns False, DPLL returns None
\* and resolution returns True.
C4_EmptyClauseUnsat ==
    (engine = "done" /\ HasEmptyClause(formula)) =>
        /\ dpResult = "False"
        /\ dpllResult = "None"
        /\ resResult = "True"

\* C5: the pool of the resolution engine never shrinks, the engine returns
\* False only at the end of a pass that appended no clause, and a pass that
\* appended a clause is followed by another pass.
C5_FixedPointOnly ==
    [][/\ Len(resLoop'.pool) >= Len(resLoop.pool)
       /\ (resResult = "none" /\ resResult' = "False") =>
              (CanPassEnd(ResState) /\ Len(resLoop.pool) = resLoop.current_len)
       /\ (CanPassEnd(ResState) /\ Len(resLoop.pool) > resLoop.current_len
            /\ resLoop' # resLoop) =>
              (resResult' = "none" /\ resLoop'.phase = "begin")]_vars

\* C6: an elimination step of DP on the chosen variable v leaves no clause with
\* v or -v, and its result (None counting as unsatisfiable) is satisfiable
\* exactly when the clause set before the step is.
C6_Elimination ==
    [][(/\ engine = "dp"
        /\ Len(dpClauses) > 0
        /\ ~HasEmptyClause(dpClauses)
        /\ dpVars' # dpVars) =>
           LET v == choose_var(dpClauses)
           IN /\ dpResult' = "none" =>
                    \A k \in 1..Len(dpClauses') :
                        ~In(v, dpClauses'[k]) /\ ~In(0 - v, dpClauses'[k])
              /\ Satisfiable(dpClauses) <=>
                    (dpResult' = "none" /\ Satisfiable(dpClauses'))]_vars

\* C7: every reordering of the clauses of the formula gets the verdict the
\* formula got, from each of the three engines (for DPLL: a model or not).
C7_OrderIrrelevant ==
    engine = "done" =>
        \A p \in Reorderings(formula) :
            /\ DPVerdicts(p) = {dpResult}
            /\ (DPLLVerdict(p) = "model") <=> (dpllResult = "model")
            /\ ResVerdicts(p) = {resResult}

\* the literals of left, in iteration order, whose negation is in right
Clashing(order, right) == SelectSeq(order, LAMBDA l : (0 - l) \in right)

\* C8 as stated: _resolve_pair(C1, C2) returns, for every literal L of C1 whose
\* negation is in C2, the clause (C1 \cup C2) minus {L, -L}, and nothing else.
C8_UnionMinusBoth ==
    pairOut.called =>
        LET Q == Clashing(pairIn.order, pairIn.right)
        IN /\ Len(pairOut.resolvents) = Len(Q)
           /\ \A k \in 1..Len(Q) :
                  pairOut.resolvents[k] =
                      (Range(pairIn.order) \cup pairIn.right) \ {Q[k], 0 - Q[k]}

\* C8 as amended: _resolve_pair(C1, C2) returns, for every literal L of C1
\* whose negation is in C2, the clause (C1 minus {L}) \cup (C2 minus {-L}), and
\* nothing else; that is (C1 \cup C2) minus {L, -L} whenever -L is not in C1
\* and L is not in C2; {1,2} with {-1,3} gives {2,3}, {1} with {-1} gives {}.
C8_ResolvePair ==
    pairOut.called =>
        LET Q == Clashing(pairIn.order, pairIn.right)
            left == Range(pairIn.order)
        IN /\ Len(pairOut.resolvents) = Len(Q)
           /\ \A k \in 1..Len(Q) :
                  /\ pairOut.resolvents[k] = (left \ {Q[k]}) \cup (pairIn.right \ {0 - Q[k]})
                  /\ ((0 - Q[k]) \notin left /\ Q[k] \notin pairIn.right) =>
                        pairOut.resolvents[k] = (left \cup pairIn.right) \ {Q[k], 0 - Q[k]}
           /\ (left = {1, 2} /\ pairIn.right = {0 - 1, 3}) => pairOut.resolvents = <<{2, 3}>>
           /\ (left = {1} /\ pairIn.right = {0 - 1}) => pairOut.resolvents = <<{}>>

C8_Witness ==
    /\ pairOut.called
    /\ \E k \in 1..Len(pairOut.resolvents) :
          LET l == Clashing(pairIn.order, pairIn.right)[k]
          IN /\ (0 - l) \in Range(pairIn.order)
             /\ (0 - l) \in pairOut.resolvents[k]

\* C9: a call of solve that has reached its decision keeps its clause list, its
\* pivot and the content of its model dict for as long as it is on the stack,
\* whatever the calls below it do; every recursive call starts from exactly
\* those clauses simplified under the decision and that model plus the
\* decision, in a dict no other call holds; the caller's formula never changes.
C9_NoResidue ==
    [][/\ formula' = formula
       /\ dpllFormula' = dpllFormula
       /\ \A k \in 1..Len(dpllStack) :
              (k <= Len(dpllStack') /\ dpllStack[k].phase # "enter") =>
                  /\ dpllStack'[k].clauses = dpllStack[k].clauses
                  /\ dpllStack'[k].pivot = dpllStack[k].pivot
                  /\ dpllStack'[k].model = dpllStack[k].model
                  /\ dpllHeap'[dpllStack[k].model] = dpllHeap[dpllStack[k].model]
       /\ (Len(dpllStack) >= 1 /\ Len(dpllStack') = Len(dpllStack) + 1) =>
              LET f == dpllStack[Len(dpllStack)]
                  c == dpllStack'[Len(dpllStack')]
                  truth == <<TRUE, FALSE>>[f.truth]
              IN /\ c.clauses = simplify(f.clauses,
                                         IF truth THEN f.pivot ELSE 0 - f.pivot).clauses
                 /\ dpllHeap'[c.model] = Put(dpllHeap[f.model], Abs(f.pivot), truth)
                 /\ \A k \in 1..Len(dpllStack) : dpllStack[k].model # c.model]_vars

\* the pivot=false branch has just made its recursive call, after a
\* pivot=true branch that assigned another variable and failed
C9_Witness ==
    /\ Len(dpllStack) >= 2
    /\ dpllStack[Len(dpllStack)].phase = "enter"
    /\ LET f == dpllStack[Len(dpllStack) - 1]
       IN /\ f.truth = 2
          /\ \E h \in 1..Len(dpllHeap) :
                /\ \A k \in 1..Len(dpllStack) : dpllStack[k].model # h
                /\ \E v \in DOMAIN dpllHeap[h] :
                      v # Abs(f.pivot) /\ v \notin DOMAIN dpllHeap[f.model]

\* an upper bound of the steps a call of solve takes on clauses with k variables
RECURSIVE CallCost(_)
CallCost(k) == IF k <= 0 THEN 1 ELSE 2 * CallCost(k - 1) + 6

NumVarsOf(cnf) == Cardinality(VarsOf(cnf))

\* an upper bound of the steps the call f has left, the calls it makes included
FrameCost(f) ==
    LET branch == 2 + CallCost(NumVarsOf(f.clauses) - 1)
    IN IF f.phase = "enter" THEN CallCost(NumVarsOf(f.clauses))
       ELSE IF f.phase = "loop" THEN (3 - f.truth) * branch + 1
       ELSE (2 - f.truth) * branch + 2

RECURSIVE StackCost(_, _)
StackCost(stack, k) ==
    IF k > Len(stack) THEN 0 ELSE FrameCost(stack[k]) + StackCost(stack, k + 1)

\* the variant of the run of DPLLSolver.solve
Measure ==
    IF dpllResult # "none" THEN 0
    ELSE IF Len(dpllStack) = 0 THEN CallCost(NumVarsOf(dpllFormula)) + 1
    ELSE StackCost(dpllStack, 1)

\* C10: on a formula with no empty clause, solve can always take a step until
\* it has returned, every step decreases a natural-number variant, so it
\* terminates, the number of recursive calls open below the top-level call
\* never exceeds the number of distinct variables of the formula, and the
\* clauses handed to a recursive call do not mention the pivot's variable.
C10_TerminatesBoundedDepth ==
    /\ []((engine = "dpll" /\ ~HasEmptyClause(formula)) =>
             \/ CanCall(DPLLState) \/ CanPropagate(DPLLState) \/ CanBranch(DPLLState)
             \/ CanAfterCall(DPLLState) \/ CanExhaust(DPLLState))
    /\ [][(engine = "dpll" /\ ~HasEmptyClause(formula)) =>
             /\ Measure' < Measure
             /\ Measure' >= 0
             /\ Len(dpllStack') - 1 <= NumVarsOf(formula)
             /\ (Len(dpllStack) >= 1 /\ Len(dpllStack') = Len(dpllStack) + 1) =>
                    Abs(dpllStack[Len(dpllStack)].pivot)
                        \notin VarsOf(dpllStack'[Len(dpllStack')].clauses)]_vars

C10_Witness ==
    /\ ~HasEmptyClause(formula)
    /\ NumVarsOf(formula) >= 2
    /\ Len(dpllStack) - 1 = NumVarsOf(formula)

====
